---- MODULE Spec2Model ----
(***************************************************************************)
(* Model of pyScienceMode's RehastimGeneric                                *)
(* (src/pyScienceMode/devices/rehastim_generic.py): the command send path, *)
(* the watchdog thread, the reader thread (_thread_catch_ack), the         *)
(* acknowledgement hand-off (_get_last_ack) and disconnect().              *)
(*                                                                         *)
(* Time is counted in ticks of 0.2 s, so that 0.8 s is 4 ticks and 1 s is  *)
(* 5 ticks.  "elapsed" models time.time() - self.time_last_cmd.            *)
(***************************************************************************)
EXTENDS Integers, Sequences, FiniteSets, TLC

\* ------------------------------------------------------------------ bounds
MaxSends == 3        \* send_generic_packet calls in one behaviour
MaxRx == 2           \* packets the device emits in one behaviour (Spec)
MaxRxClose == 1      \* packets the device emits in one behaviour (SpecClose)
RxCap == 2           \* packets waiting in the serial buffer at one time
ElapsedCap == 6      \* elapsed time saturates here (more than every threshold)
RingCalls == 102     \* actual-values packets the device emits in SpecRing
MaxListLen == 3      \* length of the correlation lists drawn in SpecScan
MaxBytes == 10       \* bytes the device sends in one behaviour (SpecFrame)

\* --------------------------------------------------------- program constants
WatchdogThreshold == 4     \* 0.8 s, _watchdog: time.time() - time_last_cmd > 0.8
WatchdogPeriod == 4        \* 0.8 s, _watchdog: time.sleep(0.8)
SendThreshold == 5         \* 1 s, send_generic_packet: time.time() - time_last_cmd > 1
max_motomed_values == 100
max_phase_result == 1
MotomedErrorId == 90       \* the literal 90 of _thread_catch_ack
InitId == 1                \* the literal 1 of _thread_catch_ack

\* Rehastim2Commands: the command identifiers (enums.py)
Rehastim2Commands ==
  [Init |-> 1, InitAck |-> 2, UnknownCommand |-> 3, Watchdog |-> 4,
   GetStimulationMode |-> 10, GetStimulationModeAck |-> 11,
   InitChannelListMode |-> 30, InitChannelListModeAck |-> 31,
   StartChannelListMode |-> 32, StartChannelListModeAck |-> 33,
   StopChannelListMode |-> 34, StopChannelListModeAck |-> 35,
   StimulationError |-> 38, ActualValues |-> 60, PhaseResult |-> 62,
   MotomedCommandDone |-> 89, MotomedError |-> 90]

CommandValues == {Rehastim2Commands[k] : k \in DOMAIN Rehastim2Commands}

\* ------------------------------------------------------------------ threads
Callers == {"c1", "c2"}
Sender == "c1"      \* the thread that issues commands and waits for their replies
Closer == "c2"      \* the thread that calls disconnect()
Watchdogs == {"w1", "w2"}
Threads == Callers \cup Watchdogs
NoThread == "none"

\* A packet: byte 6 (command identifier), byte 7 as a signed status code, and
\* n, the packet number of an outgoing packet or the sample carried by a report.
Pkt(id, st, n) == [id |-> id, st |-> st, n |-> n]
NoPacket == Pkt(0, 0, 0)          \* None

NoCall == [cmd |-> "", pkt |-> NoPacket, el |-> 0, latched |-> FALSE,
           init |-> FALSE, w |-> NoThread]

VARIABLES
  show_log,               \* self.show_log (truthy or not)
  is_motomed_connected,   \* self.is_motomed_connected
  reha_connected,         \* self.reha_connected
  stimulation_active,     \* self.stimulation_active
  error_occured,          \* self.error_occured
  command_send,           \* self.command_send
  ack_received,           \* self.ack_received
  last_ack,               \* self.last_ack
  last_init_ack,          \* self.last_init_ack
  motomed_values,         \* self.motomed_values (<<>> is None)
  last_phase_result,      \* self.last_phase_result (<<>> is None)
  is_phase_result,        \* self.is_phase_result (Event)
  motomed_done,           \* self.motomed_done (Event)
  event_ack,              \* self.event_ack (Event)
  packet_count,           \* self.packet_count
  packet_send_history,    \* self.packet_send_history
  lock,                   \* holder of self.lock, or NoThread
  thread_watchdog,        \* self.__thread_watchdog, or NoThread
  comparison_thread_started, \* self.__comparison_thread_started
  elapsed,                \* time.time() - self.time_last_cmd, saturated
  sleepLeft,              \* remaining time.sleep of each watchdog thread
  pc,                     \* position of each caller and watchdog thread
  call,                   \* locals of the call each thread is in
  ret,                    \* outcome of each caller's last call
  rpc,                    \* position of the reader thread
  packets,                \* reader's local list "packets"
  rx,                     \* bytes waiting in the serial port, as packets
  wire,                   \* the last two port.write calls, in order
  nsends,                 \* send_generic_packet calls so far
  nrx,                    \* packets emitted by the device so far
  av_calls,               \* _actual_values_ack calls so far
  delivered,              \* bytes the device has put on the serial line so far
  in_waiting,             \* bytes waiting in the serial port (port.inWaiting())
  read_buf,               \* _read_packet's local "packet"
  framed,                 \* the packets returned by _read_packet so far
  notified,               \* callers woken by is_phase_result.set()
  got                     \* what each caller's last getter call returned

vars == <<show_log, is_motomed_connected, reha_connected, stimulation_active,
          error_occured, command_send, ack_received, last_ack, last_init_ack,
          motomed_values, last_phase_result, is_phase_result, motomed_done,
          event_ack, packet_count, packet_send_history, lock, thread_watchdog,
          comparison_thread_started, elapsed, sleepLeft, pc, call, ret, rpc,
          packets, rx, wire, nsends, nrx, av_calls, delivered,
          in_waiting, read_buf, framed, notified, got>>

configVars == <<show_log>>
flagVars == <<is_motomed_connected, reha_connected, stimulation_active, error_occured>>
listVars == <<command_send, ack_received>>
slotVars == <<last_ack, last_init_ack>>
telemetryVars == <<motomed_values, last_phase_result, is_phase_result, av_calls>>
eventVars == <<motomed_done, event_ack>>
sendVars == <<packet_count, packet_send_history, lock, wire, nsends>>
timeVars == <<elapsed, sleepLeft>>
threadVars == <<pc, call, ret>>
readerVars == <<rpc, packets, comparison_thread_started>>
deviceVars == <<rx, nrx>>
frameVars == <<delivered, in_waiting, read_buf, framed>>
getterVars == <<notified, got>>

Min(a, b) == IF a < b THEN a ELSE b

\* What a caller's last getter call returned (nothing yet, a value, or an
\* exception), and the phase results its last get_phase_result call read.
NoResult == [call |-> "", status |-> "none", val |-> <<>>, phase |-> <<>>]

\* The serial line before the reader thread's first read
FrameInit ==
  /\ delivered = <<>>
  /\ in_waiting = <<>>
  /\ read_buf = <<>>
  /\ framed = <<>>

\* __init__, lines 100-103: the events are clear, no getter was called
GetterInit ==
  /\ notified = {}
  /\ got = [t \in Callers |-> NoResult]

\* __init__: the state after construction; show_log and with_motomed are the
\* constructor's arguments.
InitWith(log, motomed) ==
  /\ show_log = log
  /\ is_motomed_connected = motomed
  /\ reha_connected = FALSE
  /\ stimulation_active = FALSE
  /\ error_occured = FALSE
  /\ command_send = <<>>
  /\ ack_received = <<>>
  /\ last_ack = NoPacket
  /\ last_init_ack = NoPacket
  /\ motomed_values = <<>>
  /\ last_phase_result = <<>>
  /\ is_phase_result = FALSE
  /\ motomed_done = FALSE
  /\ event_ack = FALSE
  /\ packet_count = 0
  /\ packet_send_history = NoPacket
  /\ lock = NoThread
  /\ thread_watchdog = NoThread
  /\ comparison_thread_started = FALSE
  /\ elapsed = ElapsedCap
  /\ sleepLeft = [w \in Watchdogs |-> 0]
  /\ pc = [t \in Threads |-> IF t \in Callers THEN "idle" ELSE "off"]
  /\ call = [t \in Threads |-> NoCall]
  /\ ret = [t \in Callers |-> "none"]
  /\ rpc = "off"
  /\ packets = <<>>
  /\ rx = <<>>
  /\ wire = <<>>
  /\ nsends = 0
  /\ nrx = 0
  /\ av_calls = 0
  /\ FrameInit
  /\ GetterInit

Init == \E log \in BOOLEAN, motomed \in BOOLEAN : InitWith(log, motomed)


\* ------------------------------------------------------------- send path
\* Commands a caller passes to send_generic_packet.
Commands == {"InitAck", "GetStimulationMode"}
AckCommands == {"GetStimulationMode", "StartChannelListMode"}

\* _init_ack / _packet_watchdog: packet_construction(packet_count, cmd)
PacketConstruction(cmd, count) == Pkt(Rehastim2Commands[cmd], 0, count)

\* _packet_watchdog
PacketWatchdog == PacketConstruction("Watchdog", packet_count)

\* send_generic_packet, lines 354-357: is the packet appended to command_send
RecordedAny(log, packet) == log
Recorded(log, packet) == log /\ packet.id # Rehastim2Commands.Watchdog

\* "with self.lock": may thread t enter
LockFreeAlways == TRUE
LockFree == lock = NoThread

\* send_generic_packet, line 360: time.time() - self.time_last_cmd > 1
LateAtOrAfter(e) == e >= SendThreshold
Late(e) == e > SendThreshold

InSend(t) == pc[t] \in {"s_lock", "s_piggy", "s_write", "s_post"}
InWriteSection(t) == pc[t] \in {"s_piggy", "s_write"}

FreeWatchdogs == {w \in Watchdogs : pc[w] \in {"off", "done"}}

\* send_generic_packet, lines 350-357, called by caller t with a packet built
\* from the current packet_count.  _start_watchdog (lines 452-459) is part of it.
SendEnter(t, cmd) ==
  /\ t \in Callers
  /\ pc[t] = "idle"
  /\ nsends < MaxSends
  /\ LET packet == PacketConstruction(cmd, packet_count)
         entry == [NoCall EXCEPT !.cmd = cmd, !.pkt = packet,
                                 !.latched = error_occured]
     IN /\ IF cmd = "InitAck"
             THEN /\ FreeWatchdogs # {}
                  /\ \E w \in FreeWatchdogs :
                       /\ w = CHOOSE x \in FreeWatchdogs : TRUE
                       /\ motomed_done' = TRUE
                       /\ reha_connected' = TRUE
                       /\ thread_watchdog' = w
                       /\ pc' = [pc EXCEPT ![t] = "s_lock", ![w] = "w_check"]
                       /\ sleepLeft' = [sleepLeft EXCEPT ![w] = 0]
             ELSE /\ pc' = [pc EXCEPT ![t] = "s_lock"]
                  /\ UNCHANGED <<motomed_done, reha_connected, thread_watchdog, sleepLeft>>
        /\ command_send' = IF Recorded(show_log, packet)
                             THEN Append(command_send, packet) ELSE command_send
        /\ call' = [call EXCEPT ![t] = entry]
  /\ nsends' = nsends + 1
  /\ UNCHANGED <<configVars, frameVars, getterVars, is_motomed_connected, stimulation_active, error_occured,
                 ack_received, slotVars, telemetryVars, event_ack, packet_count,
                 packet_send_history, lock, wire, elapsed, ret, readerVars, deviceVars>>

\* send_generic_packet, lines 359-360: take the lock and compare the clock
SendAcquire(t) ==
  /\ pc[t] = "s_lock"
  /\ LockFree
  /\ lock' = t
  /\ call' = [call EXCEPT ![t].el = elapsed]
  /\ pc' = [pc EXCEPT ![t] = IF Late(elapsed) THEN "s_piggy" ELSE "s_write"]
  /\ UNCHANGED <<configVars, frameVars, getterVars, flagVars, listVars, slotVars, telemetryVars, eventVars,
                 packet_count, packet_send_history, wire, nsends, thread_watchdog,
                 timeVars, ret, readerVars, deviceVars>>

\* The transport keeps the last two writes.
WireAppend(w, e) == IF Len(w) < 2 THEN Append(w, e) ELSE <<w[2], e>>

WireEntry(t, piggy, packet) ==
  [t |-> t, piggy |-> piggy, id |-> packet.id, n |-> packet.n,
   late |-> call[t].el > SendThreshold, latched |-> call[t].latched]

\* send_generic_packet, line 361: self.port.write(self._packet_watchdog())
SendPiggy(t) ==
  /\ pc[t] = "s_piggy"
  /\ wire' = WireAppend(wire, WireEntry(t, TRUE, PacketWatchdog))
  /\ pc' = [pc EXCEPT ![t] = "s_write"]
  /\ UNCHANGED <<configVars, frameVars, getterVars, flagVars, listVars, slotVars, telemetryVars, eventVars,
                 packet_count, packet_send_history, lock, nsends, thread_watchdog,
                 timeVars, call, ret, readerVars, deviceVars>>

\* send_generic_packet, lines 362-364: self.port.write(packet), leave the lock
SendWrite(t) ==
  /\ pc[t] = "s_write"
  /\ wire' = WireAppend(wire, WireEntry(t, FALSE, call[t].pkt))
  /\ reha_connected' = IF call[t].cmd = "InitAck" THEN TRUE ELSE reha_connected
  /\ lock' = NoThread
  /\ pc' = [pc EXCEPT ![t] = "s_post"]
  /\ UNCHANGED <<configVars, frameVars, getterVars, is_motomed_connected, stimulation_active, error_occured,
                 listVars, slotVars, telemetryVars, eventVars, packet_count,
                 packet_send_history, nsends, thread_watchdog, timeVars, call, ret,
                 readerVars, deviceVars>>

\* send_generic_packet, lines 366-371: the bookkeeping after the lock, return
SendPost(t) ==
  /\ pc[t] = "s_post"
  /\ elapsed' = 0
  /\ packet_send_history' = call[t].pkt
  /\ packet_count' = (packet_count + 1) % 256
  /\ call' = [call EXCEPT ![t] = NoCall]
  /\ IF t \in Callers
       THEN /\ pc' = [pc EXCEPT ![t] = "idle"]
            /\ ret' = [ret EXCEPT ![t] = "ok"]
            /\ UNCHANGED sleepLeft
       ELSE /\ pc' = [pc EXCEPT ![t] = "w_sleep"]
            /\ sleepLeft' = [sleepLeft EXCEPT ![t] = WatchdogPeriod]
            /\ UNCHANGED ret
  /\ UNCHANGED <<configVars, frameVars, getterVars, flagVars, listVars, slotVars, telemetryVars, eventVars,
                 lock, wire, nsends, thread_watchdog, readerVars, deviceVars>>

\* ----------------------------------------------------------- watchdog thread
\* _watchdog, lines 331-334: the loop test, the clock test and the start of
\* send_generic_packet("Watchdog", self._packet_watchdog())
WatchdogCheck(w) ==
  /\ w \in Watchdogs
  /\ pc[w] = "w_check"
  /\ IF ~reha_connected
       THEN /\ pc' = [pc EXCEPT ![w] = "done"]
            /\ UNCHANGED <<call, sleepLeft, nsends, command_send>>
       ELSE IF elapsed > WatchdogThreshold
         THEN /\ nsends < MaxSends
              /\ nsends' = nsends + 1
              /\ call' = [call EXCEPT ![w] =
                            [NoCall EXCEPT !.cmd = "Watchdog", !.pkt = PacketWatchdog,
                                           !.latched = error_occured]]
              /\ command_send' = IF Recorded(show_log, PacketWatchdog)
                                   THEN Append(command_send, PacketWatchdog)
                                   ELSE command_send
              /\ pc' = [pc EXCEPT ![w] = "s_lock"]
              /\ UNCHANGED sleepLeft
         ELSE /\ pc' = [pc EXCEPT ![w] = "w_sleep"]
              /\ sleepLeft' = [sleepLeft EXCEPT ![w] = WatchdogPeriod]
              /\ UNCHANGED <<call, nsends, command_send>>
  /\ UNCHANGED <<configVars, frameVars, getterVars, flagVars, ack_received, slotVars, telemetryVars, eventVars,
                 packet_count, packet_send_history, lock, wire, thread_watchdog,
                 elapsed, ret, readerVars, deviceVars>>

\* _watchdog, line 334: time.sleep(0.8) is over
WatchdogWake(w) ==
  /\ w \in Watchdogs
  /\ pc[w] = "w_sleep"
  /\ sleepLeft[w] = 0
  /\ pc' = [pc EXCEPT ![w] = "w_check"]
  /\ UNCHANGED <<configVars, frameVars, getterVars, flagVars, listVars, slotVars, telemetryVars, eventVars,
                 sendVars, thread_watchdog, timeVars, call, ret, readerVars, deviceVars>>

\* Time passes by one tick.  A step of a running thread takes no time: time
\* passes only while every thread is idle, sleeping or waiting.
Tick ==
  /\ \A t \in Threads : ~InSend(t) /\ pc[t] # "w_check"
  /\ \A w \in Watchdogs : pc[w] = "w_sleep" => sleepLeft[w] > 0
  /\ elapsed' = Min(elapsed + 1, ElapsedCap)
  /\ sleepLeft' = [w \in Watchdogs |->
                     IF pc[w] = "w_sleep" THEN sleepLeft[w] - 1 ELSE sleepLeft[w]]
  /\ UNCHANGED <<configVars, frameVars, getterVars, flagVars, listVars, slotVars, telemetryVars, eventVars,
                 sendVars, thread_watchdog, threadVars, readerVars, deviceVars>>


\* ------------------------------------------------------------ reader thread
\* The acks helpers (init_stimulation_ack, stop_stimulation_ack,
\* start_stimulation_ack) return the success message of their command
\* category exactly when the acknowledgement carries no error code.
AckIsSuccess(packet) == packet.st = 0

FatalCodes == {-1, -2, -3}

RemoveAt(s, i) == [k \in 1..(Len(s) - 1) |-> IF k < i THEN s[k] ELSE s[k + 1]]

\* _thread_catch_ack, lines 265-284: the checks made on every received packet
\* once a pair matched; TRUE when one of them raises.
HandshakeRaises(ar) ==
  \E k \in DOMAIN ar :
    /\ ar[k].id \in {Rehastim2Commands.InitChannelListModeAck,
                     Rehastim2Commands.StopChannelListModeAck,
                     Rehastim2Commands.StartChannelListModeAck}
    /\ ~AckIsSuccess(ar[k])

\* _thread_catch_ack, line 264: does the pair at (0-based) index i match
PairMatches(c, a, i) == c.id + 1 = a.id /\ i > 0

\* _thread_catch_ack, lines 252-286: the backward scan from 0-based index i.
\* The result is the two lists and whether the scan raised.
RECURSIVE ScanFrom(_, _, _, _)
ScanFrom(i, cs, ar, motomed) ==
  IF i < 0 THEN [cs |-> cs, ar |-> ar, err |-> FALSE]
  ELSE LET c == cs[i + 1]
           a == ar[i + 1]
       IN IF a.id = Rehastim2Commands.StimulationError
            THEN IF a.st \in FatalCodes
                   THEN [cs |-> cs, ar |-> ar, err |-> TRUE]
                   ELSE ScanFrom(i - 1, cs, ar, motomed)
          ELSE IF a.id = Rehastim2Commands.ActualValues /\ ~motomed
            THEN [cs |-> cs, ar |-> ar, err |-> TRUE]
          ELSE IF PairMatches(c, a, i)
            THEN IF HandshakeRaises(ar)
                   THEN [cs |-> cs, ar |-> ar, err |-> TRUE]
                   ELSE ScanFrom(i - 1, RemoveAt(cs, i + 1), RemoveAt(ar, i + 1), motomed)
          ELSE ScanFrom(i - 1, cs, ar, motomed)

\* _thread_catch_ack, lines 251-252
Scan(cs, ar, motomed) ==
  IF cs # <<>> /\ ar # <<>>
    THEN ScanFrom(Min(Len(cs), Len(ar)) - 1, cs, ar, motomed)
    ELSE [cs |-> cs, ar |-> ar, err |-> FALSE]

\* _actual_values_ack, lines 319-325: the sliding window of samples
ActualValuesAckKeepOldest(values, sample) ==
  IF values = <<>> THEN <<sample>>
  ELSE IF Len(values) < max_motomed_values THEN Append(values, sample)
  ELSE Append(SubSeq(values, 1, Len(values) - 1), sample)
ActualValuesAck(values, sample) ==
  IF values = <<>> THEN <<sample>>
  ELSE IF Len(values) < max_motomed_values THEN Append(values, sample)
  ELSE Append(Tail(values), sample)

\* _phase_result_ack, lines 637-642: the sliding window of phase results
PhaseResultAck(results, result) ==
  IF results = <<>> THEN <<result>>
  ELSE IF Len(results) < max_phase_result THEN Append(results, result)
  ELSE Append(Tail(results), result)

\* is_phase_result.set(), line 643: the callers blocked in is_phase_result.wait()
\* are woken, whatever becomes of the flag afterwards.
EventSet(woken) == woken \cup {t \in Callers : pc[t] = "p_wait"}

\* The session is activated and the reader thread started
\* (_start_thread_catch_ack, lines 199-205).
ActivateSession ==
  /\ ~comparison_thread_started
  /\ comparison_thread_started' = TRUE
  /\ stimulation_active' = TRUE
  /\ rpc' = "loop"
  /\ UNCHANGED <<configVars, frameVars, getterVars, is_motomed_connected, reha_connected, error_occured,
                 listVars, slotVars, telemetryVars, eventVars, sendVars,
                 thread_watchdog, timeVars, threadVars, packets, deviceVars>>

\* _thread_catch_ack, lines 215 and 221: the loop test and the motomed test
ReaderLoop ==
  /\ rpc = "loop"
  /\ rpc' = IF ~stimulation_active THEN "done"
            ELSE IF is_motomed_connected THEN "read" ELSE "scan"
  /\ UNCHANGED <<configVars, frameVars, getterVars, flagVars, listVars, slotVars, telemetryVars, eventVars,
                 sendVars, thread_watchdog, timeVars, threadVars, packets,
                 comparison_thread_started, deviceVars>>

\* _read_packet, lines 411-433: the loop leaves only once bytes were read and
\* the port is drained; with an empty port it keeps polling.
ReaderRead ==
  /\ rpc = "read"
  /\ rx # <<>>
  /\ packets' = rx
  /\ rx' = <<>>
  /\ rpc' = "dispatch"
  /\ UNCHANGED <<configVars, frameVars, getterVars, flagVars, listVars, slotVars, telemetryVars, eventVars,
                 sendVars, thread_watchdog, timeVars, threadVars,
                 comparison_thread_started, nrx>>

\* _thread_catch_ack, lines 224-249: one iteration of "for packet in packets"
ReaderDispatch ==
  /\ rpc = "dispatch"
  /\ IF packets = <<>>
       THEN /\ rpc' = "scan"
            /\ UNCHANGED <<packets, slotVars, telemetryVars, eventVars>>
       ELSE LET packet == Head(packets) IN
            /\ packets' = Tail(packets)
            /\ IF packet.id = Rehastim2Commands.ActualValues
                 THEN /\ motomed_values' = ActualValuesAck(motomed_values, packet.n)
                      /\ av_calls' = av_calls + 1
                      /\ rpc' = "dispatch"
                      /\ UNCHANGED <<slotVars, last_phase_result, is_phase_result, eventVars>>
               ELSE IF packet.id = Rehastim2Commands.PhaseResult
                 THEN /\ last_phase_result' = PhaseResultAck(last_phase_result, packet.n)
                      /\ is_phase_result' = TRUE
                      /\ rpc' = "done"
                      /\ UNCHANGED <<slotVars, motomed_values, av_calls, eventVars>>
               ELSE IF packet.id = MotomedErrorId
                 THEN /\ rpc' = "dispatch"
                      /\ UNCHANGED <<slotVars, telemetryVars, eventVars>>
               ELSE IF packet.id = Rehastim2Commands.MotomedCommandDone
                 THEN /\ motomed_done' = TRUE
                      /\ rpc' = "dispatch"
                      /\ UNCHANGED <<slotVars, telemetryVars, event_ack>>
               ELSE IF packet.id \in CommandValues
                 THEN /\ IF packet.id = InitId
                           THEN last_init_ack' = packet /\ UNCHANGED last_ack
                           ELSE last_ack' = packet /\ UNCHANGED last_init_ack
                      /\ event_ack' = TRUE
                      /\ rpc' = "dispatch"
                      /\ UNCHANGED <<telemetryVars, motomed_done>>
               ELSE /\ rpc' = "dispatch"
                    /\ UNCHANGED <<slotVars, telemetryVars, eventVars>>
  /\ notified' = IF packets # <<>> /\ Head(packets).id = Rehastim2Commands.PhaseResult
                   THEN EventSet(notified) ELSE notified
  /\ UNCHANGED <<configVars, frameVars, got, flagVars, listVars, sendVars, thread_watchdog,
                 timeVars, threadVars, comparison_thread_started, deviceVars>>

\* _thread_catch_ack, lines 251-289: the correlation scan and the sleep
ReaderScan ==
  /\ rpc = "scan"
  /\ LET r == Scan(command_send, ack_received, is_motomed_connected) IN
       /\ command_send' = r.cs
       /\ ack_received' = r.ar
       /\ error_occured' = IF r.err THEN TRUE ELSE error_occured
       /\ rpc' = IF r.err THEN "raised" ELSE "loop"
  /\ UNCHANGED <<configVars, frameVars, getterVars, is_motomed_connected, reha_connected, stimulation_active,
                 slotVars, telemetryVars, eventVars, sendVars, thread_watchdog,
                 timeVars, threadVars, packets, comparison_thread_started, deviceVars>>

ReaderStep == ReaderLoop \/ ReaderRead \/ ReaderDispatch \/ ReaderScan

ReaderFinished == rpc \in {"done", "raised"}


\* ----------------------------------------------------------- _get_last_ack
\* _get_last_ack, lines 151-169: entry.  Without the motomed the call goes to
\* _get_last_device_ack, which this class leaves abstract.
\* _get_last_ack, line 151: "if self.error_occured"
LatchIgnored == FALSE
LatchSeen == error_occured

GetLastAck(t, init) ==
  /\ t \in Callers
  /\ pc[t] = "idle"
  /\ IF LatchSeen
       THEN /\ ret' = [ret EXCEPT ![t] = "raise"]
            /\ UNCHANGED <<pc, call>>
       ELSE IF is_motomed_connected
         THEN /\ pc' = [pc EXCEPT ![t] = "g_wait"]
              /\ call' = [call EXCEPT ![t] = [NoCall EXCEPT !.cmd = "get", !.init = init]]
              /\ ret' = [ret EXCEPT ![t] = "none"]
         ELSE /\ ret' = [ret EXCEPT ![t] = "ok"]
              /\ UNCHANGED <<pc, call>>
  /\ UNCHANGED <<configVars, frameVars, getterVars, flagVars, listVars, slotVars, telemetryVars, eventVars,
                 sendVars, thread_watchdog, timeVars, readerVars, deviceVars>>

Slot(init) == IF init THEN last_init_ack ELSE last_ack

\* _get_last_ack, lines 156-158 and 162-164: the busy wait ends, the slot is read
GetLastAckRead(t) ==
  /\ pc[t] = "g_wait"
  /\ Slot(call[t].init) # NoPacket
  /\ call' = [call EXCEPT ![t].pkt = Slot(call[t].init)]
  /\ pc' = [pc EXCEPT ![t] = "g_take"]
  /\ UNCHANGED <<configVars, frameVars, getterVars, flagVars, listVars, slotVars, telemetryVars, eventVars,
                 sendVars, thread_watchdog, timeVars, ret, readerVars, deviceVars>>

\* _get_last_ack, lines 159-160 and 165-167: append, reset the slot, return
GetLastAckTake(t) ==
  /\ pc[t] = "g_take"
  /\ ack_received' = Append(ack_received, call[t].pkt)
  /\ IF call[t].init
       THEN last_init_ack' = NoPacket /\ UNCHANGED last_ack
       ELSE last_ack' = NoPacket /\ UNCHANGED last_init_ack
  /\ pc' = [pc EXCEPT ![t] = "idle"]
  /\ call' = [call EXCEPT ![t] = NoCall]
  /\ ret' = [ret EXCEPT ![t] = "ok"]
  /\ UNCHANGED <<configVars, frameVars, getterVars, flagVars, command_send, telemetryVars, eventVars,
                 sendVars, thread_watchdog, timeVars, readerVars, deviceVars>>

\* --------------------------------------------------------------- disconnect
\* disconnect, line 439: _stop_watchdog (lines 465-466) clears reha_connected
\* and starts to join the watchdog thread; with no thread object the join raises.
Disconnect(t) ==
  /\ t \in Callers
  /\ pc[t] = "idle"
  /\ reha_connected' = FALSE
  /\ IF thread_watchdog = NoThread
       THEN /\ ret' = [ret EXCEPT ![t] = "raise"]
            /\ UNCHANGED <<pc, call>>
       ELSE /\ pc' = [pc EXCEPT ![t] = "d_join"]
            /\ call' = [call EXCEPT ![t] = [NoCall EXCEPT !.cmd = "disconnect",
                                                          !.w = thread_watchdog]]
            /\ ret' = [ret EXCEPT ![t] = "none"]
  /\ UNCHANGED <<configVars, frameVars, getterVars, is_motomed_connected, stimulation_active, error_occured,
                 listVars, slotVars, telemetryVars, eventVars, sendVars,
                 thread_watchdog, timeVars, readerVars, deviceVars>>

\* disconnect, lines 440-442, once the watchdog thread is joined: either
\* _stop_thread_catch_ack (lines 448-450) begins, or the session is marked
\* inactive and disconnect returns.
DisconnectJoined(t) ==
  /\ pc[t] = "d_join"
  /\ pc[call[t].w] = "done"
  /\ IF reha_connected
       THEN /\ is_motomed_connected' = FALSE
            /\ reha_connected' = FALSE
            /\ pc' = [pc EXCEPT ![t] = "d_joinr"]
            /\ UNCHANGED <<stimulation_active, call, ret>>
       ELSE /\ stimulation_active' = FALSE
            /\ pc' = [pc EXCEPT ![t] = "idle"]
            /\ call' = [call EXCEPT ![t] = NoCall]
            /\ ret' = [ret EXCEPT ![t] = "ok"]
            /\ UNCHANGED <<is_motomed_connected, reha_connected>>
  /\ UNCHANGED <<configVars, frameVars, getterVars, error_occured, listVars, slotVars, telemetryVars,
                 eventVars, sendVars, thread_watchdog, timeVars, readerVars, deviceVars>>

\* _stop_thread_catch_ack, line 450, and disconnect, line 442: the reader
\* thread is joined (the join raises when no reader thread was ever created)
DisconnectReaderJoined(t) ==
  /\ pc[t] = "d_joinr"
  /\ rpc = "off" \/ ReaderFinished
  /\ IF rpc = "off"
       THEN /\ ret' = [ret EXCEPT ![t] = "raise"]
            /\ UNCHANGED stimulation_active
       ELSE /\ stimulation_active' = FALSE
            /\ ret' = [ret EXCEPT ![t] = "ok"]
  /\ pc' = [pc EXCEPT ![t] = "idle"]
  /\ call' = [call EXCEPT ![t] = NoCall]
  /\ UNCHANGED <<configVars, frameVars, getterVars, is_motomed_connected, reha_connected, error_occured,
                 listVars, slotVars, telemetryVars, eventVars, sendVars,
                 thread_watchdog, timeVars, readerVars, deviceVars>>

\* ------------------------------------------------------------------- device
\* The packets the device sends in Spec; a report carries its number as sample.
DevicePackets(n) ==
  {Pkt(Rehastim2Commands.Init, 0, 0),
   Pkt(Rehastim2Commands.GetStimulationModeAck, 0, 0),
   Pkt(Rehastim2Commands.StimulationError, -1, 0),
   Pkt(Rehastim2Commands.ActualValues, 0, n),
   Pkt(Rehastim2Commands.PhaseResult, 0, n)}

\* The periodic reports of the motomed, the packets the device sends in SpecClose.
ReportPackets(n) ==
  {Pkt(Rehastim2Commands.ActualValues, 0, n),
   Pkt(Rehastim2Commands.PhaseResult, 0, n)}

\* The device sends one packet: it arrives in the serial port's buffer.
DeviceEmit(packet, budget) ==
  /\ nrx < budget
  /\ Len(rx) < RxCap
  /\ rx' = Append(rx, packet)
  /\ nrx' = nrx + 1
  /\ UNCHANGED <<configVars, frameVars, getterVars, flagVars, listVars, slotVars, telemetryVars, eventVars,
                 sendVars, thread_watchdog, timeVars, threadVars, readerVars>>

\* ------------------------------------------------------------ _read_packet
\* The framing of the received bytes, at the level of bytes.
START_BYTE == 240          \* 0xF0
STOP_BYTE == 15            \* 0x0F
MinBufferLen == 8          \* _read_packet: len(packet) > 8
MinStopOffset == 8         \* _read_packet: next_stop_byte < 8

\* s.index(b) as a 1-based position, 0 when b is not in s (ValueError)
IndexOf(s, b) ==
  IF \E k \in DOMAIN s : s[k] = b
    THEN CHOOSE k \in DOMAIN s : s[k] = b /\ \A j \in 1..(k - 1) : s[j] # b
    ELSE 0

\* s[k:] for a 0-based k
From(s, k) == SubSeq(s, k + 1, Len(s))

\* _read_packet, lines 425-430: "while next_stop_byte < 8", with next_stop_byte
\* 0-based; failed when the search for a later stop byte raised.
RECURSIVE NextStop(_, _)
NextStop(tmp, nsb) ==
  IF nsb < MinStopOffset
    THEN LET j == IndexOf(From(tmp, nsb + 1), STOP_BYTE)
         IN IF j = 0 THEN [nsb |-> nsb, failed |-> TRUE]
                     ELSE NextStop(tmp, nsb + j)
    ELSE [nsb |-> nsb, failed |-> FALSE]

\* _read_packet, lines 423-432: "while len(packet_tmp) != 0"
RECURSIVE SplitPackets(_, _)
SplitPackets(tmp, packet_list) ==
  IF tmp = <<>> THEN [list |-> packet_list, raised |-> FALSE]
  ELSE IF IndexOf(tmp, STOP_BYTE) = 0 THEN [list |-> <<>>, raised |-> TRUE]
  ELSE LET r == NextStop(tmp, IndexOf(tmp, STOP_BYTE) - 1)
           kept == IF r.failed THEN <<>> ELSE packet_list
       IN SplitPackets(From(tmp, r.nsb + 1),
                       Append(kept, SubSeq(tmp, 1, r.nsb + 1)))

\* _read_packet, lines 419-433: the packets cut out of the bytes read; the
\* function returns None for a buffer of 8 bytes or less, and packet.index
\* raises when the buffer holds no start byte.
ParseBuffer(buf) ==
  IF Len(buf) > MinBufferLen
    THEN IF IndexOf(buf, START_BYTE) = 0
           THEN [list |-> <<>>, raised |-> TRUE]
           ELSE SplitPackets(From(buf, IndexOf(buf, START_BYTE) - 1), <<>>)
    ELSE [list |-> <<>>, raised |-> FALSE]

\* The device puts one more byte on the serial line.
DeviceDeliver(b) ==
  /\ Len(delivered) < MaxBytes
  /\ in_waiting' = Append(in_waiting, b)
  /\ delivered' = Append(delivered, b)
  /\ UNCHANGED <<configVars, flagVars, listVars, slotVars, telemetryVars, eventVars,
                 sendVars, thread_watchdog, timeVars, threadVars, readerVars,
                 deviceVars, read_buf, framed, getterVars>>

\* _read_packet, lines 413-415: port.read(port.inWaiting()) returned bytes
ReadPacketRead ==
  /\ rpc = "read"
  /\ in_waiting # <<>>
  /\ read_buf' = read_buf \o in_waiting
  /\ in_waiting' = <<>>
  /\ UNCHANGED <<configVars, flagVars, listVars, slotVars, telemetryVars, eventVars,
                 sendVars, thread_watchdog, timeVars, threadVars, readerVars,
                 deviceVars, delivered, framed, getterVars>>

\* _read_packet, lines 416-433: port.read returned nothing and the bytes read
\* so far end with the stop byte: the loop is left and the packets are cut out
\* and returned.  The local buffer does not outlive the call.
ReadPacketReturn ==
  /\ rpc = "read"
  /\ in_waiting = <<>>
  /\ read_buf # <<>>
  /\ read_buf[Len(read_buf)] = STOP_BYTE
  /\ LET r == ParseBuffer(read_buf) IN
       /\ framed' = framed \o r.list
       /\ rpc' = IF r.raised THEN "raised" ELSE "read"
  /\ read_buf' = <<>>
  /\ UNCHANGED <<configVars, flagVars, listVars, slotVars, telemetryVars, eventVars,
                 sendVars, thread_watchdog, timeVars, threadVars, packets,
                 comparison_thread_started, deviceVars, delivered,
                 in_waiting, getterVars>>

\* ------------------------------------------------------------------ getters
SampleGetters == {"get_angle", "get_speed", "get_torque"}

\* get_angle, get_speed, get_torque (lines 509-540): self.motomed_values[k, -1];
\* subscripting None raises TypeError.
LatestSample(values) ==
  IF values = <<>>
    THEN [status |-> "TypeError", val |-> <<>>]
    ELSE [status |-> "ok", val |-> <<values[Len(values)]>>]

GetSample(t, getter) ==
  /\ t \in Callers
  /\ pc[t] = "idle"
  /\ getter \in SampleGetters
  /\ got' = [got EXCEPT ![t] = [call |-> getter,
                                status |-> LatestSample(motomed_values).status,
                                val |-> LatestSample(motomed_values).val,
                                phase |-> got[t].phase]]
  /\ UNCHANGED <<configVars, frameVars, notified, flagVars, listVars, slotVars,
                 telemetryVars, eventVars, sendVars, thread_watchdog, timeVars,
                 threadVars, readerVars, deviceVars>>

\* get_phase_result, line 654: is_phase_result.wait() returns at once when the
\* event is set and blocks otherwise
GetPhaseResult(t) ==
  /\ t \in Callers
  /\ pc[t] = "idle"
  /\ pc' = [pc EXCEPT ![t] = IF is_phase_result THEN "p_read" ELSE "p_wait"]
  /\ call' = [call EXCEPT ![t] = [NoCall EXCEPT !.cmd = "get_phase_result"]]
  /\ UNCHANGED <<configVars, frameVars, getterVars, flagVars, listVars, slotVars,
                 telemetryVars, eventVars, sendVars, thread_watchdog, timeVars,
                 ret, readerVars, deviceVars>>

\* get_phase_result, line 654: a caller woken by set() leaves wait()
GetPhaseResultWake(t) ==
  /\ pc[t] = "p_wait"
  /\ t \in notified
  /\ notified' = notified \ {t}
  /\ pc' = [pc EXCEPT ![t] = "p_read"]
  /\ UNCHANGED <<configVars, frameVars, got, flagVars, listVars, slotVars,
                 telemetryVars, eventVars, sendVars, thread_watchdog, timeVars,
                 call, ret, readerVars, deviceVars>>

\* get_phase_result, line 655: last_result = self.last_phase_result
GetPhaseResultRead(t) ==
  /\ pc[t] = "p_read"
  /\ got' = [got EXCEPT ![t] = [call |-> "get_phase_result", status |-> "pending",
                                val |-> last_phase_result,
                                phase |-> last_phase_result]]
  /\ pc' = [pc EXCEPT ![t] = "p_clear"]
  /\ UNCHANGED <<configVars, frameVars, notified, flagVars, listVars, slotVars,
                 telemetryVars, eventVars, sendVars, thread_watchdog, timeVars,
                 call, ret, readerVars, deviceVars>>

\* get_phase_result, lines 656-657: is_phase_result.clear(); return last_result
GetPhaseResultClear(t) ==
  /\ pc[t] = "p_clear"
  /\ is_phase_result' = FALSE
  /\ got' = [got EXCEPT ![t].status = "ok"]
  /\ pc' = [pc EXCEPT ![t] = "idle"]
  /\ call' = [call EXCEPT ![t] = NoCall]
  /\ UNCHANGED <<configVars, frameVars, notified, flagVars, listVars, slotVars,
                 motomed_values, last_phase_result, av_calls, eventVars, sendVars,
                 thread_watchdog, timeVars, ret, readerVars, deviceVars>>

GetPhaseResultStep(t) ==
  \/ GetPhaseResult(t)
  \/ GetPhaseResultWake(t)
  \/ GetPhaseResultRead(t)
  \/ GetPhaseResultClear(t)

\* _start_thread_catch_ack, lines 199-205, called again once the reader
\* thread of the session has returned: a new reader thread is started.
StartThreadCatchAck ==
  /\ comparison_thread_started
  /\ stimulation_active
  /\ rpc = "done"
  /\ rpc' = "loop"
  /\ packets' = <<>>
  /\ UNCHANGED <<configVars, frameVars, getterVars, flagVars, listVars, slotVars,
                 telemetryVars, eventVars, sendVars, thread_watchdog, timeVars,
                 threadVars, comparison_thread_started, deviceVars>>

\* ------------------------------------------------------ telemetry decoders
\* _actual_values_ack and _phase_result_ack, at the level of bytes.
STUFFING_BYTE == 129       \* 0x81, the literal 129 of the decoders
STUFFING_KEY == 85         \* 0x55
HighByteWeight == 255      \* the literal 255 of the two-byte fields

\* packet[k] for a 0-based k
At(p, k) == p[k + 1]

\* a ^ b for two natural numbers
RECURSIVE Xor(_, _)
Xor(a, b) ==
  IF a = 0 THEN b
  ELSE IF b = 0 THEN a
  ELSE 2 * Xor(a \div 2, b \div 2) + (((a % 2) + (b % 2)) % 2)

\* x ^ k for an integer x of any sign and a byte k, as Python computes it
XorInt(x, k) == 256 * ((x - (x % 256)) \div 256) + Xor(x % 256, k)

\* utils.signed_int of one byte: the byte read as a signed 8-bit integer
SignedInt(b) == IF b >= 128 THEN b - 256 ELSE b

\* The fields of the two reports, in the order they are decoded: the offset
\* the stuffing marker is looked for at (before the stuffed bytes met so far
\* are added) and the form of the field.
\*   "byte"    one unsigned byte
\*   "word"    255 * (unsigned byte before the offset) + the byte
\*   "sword"   255 * signed_int(byte before the offset) + the byte
\*   "sbyte"   signed_int of the byte
\*   "symmetry" the symmetry field of the phase result
ActualValuesFields ==
  <<[form |-> "sword", off |-> 8],      \* angle
    [form |-> "sbyte", off |-> 10],     \* speed
    [form |-> "sbyte", off |-> 12]>>    \* torque

PhaseResultFields ==
  <<[form |-> "byte", off |-> 7],       \* phase_number
    [form |-> "word", off |-> 9],       \* passive_distance
    [form |-> "word", off |-> 11],      \* active_distance
    [form |-> "byte", off |-> 12],      \* average_power
    [form |-> "byte", off |-> 13],      \* maximum_power
    [form |-> "word", off |-> 15],      \* phase_duration
    [form |-> "word", off |-> 17],      \* active_phase_duration
    [form |-> "word", off |-> 19],      \* phase_work
    [form |-> "byte", off |-> 20],      \* success_value
    [form |-> "symmetry", off |-> 21],  \* symmetry
    [form |-> "byte", off |-> 22]>>     \* average_muscle_tone

\* The value of a field whose marker offset o holds the stuffing marker.
\* "+" binds tighter than "^": the key is applied to the whole sum; the
\* symmetry field applies signed_int to the byte at o itself.
StuffedValue(form, p, o) ==
  CASE form = "byte" -> Xor(At(p, o + 1), STUFFING_KEY)
    [] form = "word" ->
         XorInt(HighByteWeight * At(p, o - 1) + At(p, o + 1), STUFFING_KEY)
    [] form = "sword" ->
         XorInt(HighByteWeight * SignedInt(At(p, o - 1)) + At(p, o + 1), STUFFING_KEY)
    [] form = "sbyte" -> XorInt(SignedInt(At(p, o + 1)), STUFFING_KEY)
    [] form = "symmetry" -> XorInt(SignedInt(At(p, o)), STUFFING_KEY)

\* The value of a field whose marker offset o holds another byte
RawValue(form, p, o) ==
  CASE form = "byte" -> At(p, o)
    [] form = "word" -> HighByteWeight * At(p, o - 1) + At(p, o)
    [] form = "sword" -> HighByteWeight * SignedInt(At(p, o - 1)) + At(p, o)
    [] form = "sbyte" -> SignedInt(At(p, o))
    [] form = "symmetry" -> SignedInt(At(p, o))

\* The chain of "if packet[off + count] == 129 ... count += 1 ... else ..."
\* from field i on, count stuffed bytes having been met.
RECURSIVE DecodeFrom(_, _, _, _)
DecodeFrom(p, fields, i, count) ==
  IF i > Len(fields) THEN <<>>
  ELSE LET o == fields[i].off + count
       IN IF At(p, o) = STUFFING_BYTE
            THEN <<StuffedValue(fields[i].form, p, o)>>
                   \o DecodeFrom(p, fields, i + 1, count + 1)
            ELSE <<RawValue(fields[i].form, p, o)>>
                   \o DecodeFrom(p, fields, i + 1, count)

\* _actual_values_ack, lines 300-318: [angle, speed, torque]
DecodeActualValues(p) == DecodeFrom(p, ActualValuesFields, 1, 0)

\* _phase_result_ack, lines 555-635: the 11 fields of the result
DecodePhaseResult(p) == DecodeFrom(p, PhaseResultFields, 1, 0)

\* _thread_catch_ack, lines 225 and 233-234, for a packet of bytes returned by
\* _read_packet: the actual-values report is decoded and stored
DispatchActualValues ==
  /\ rpc = "dispatch"
  /\ framed # <<>>
  /\ Len(Head(framed)) > 7
  /\ At(Head(framed), 6) = Rehastim2Commands.ActualValues
  /\ motomed_values' = ActualValuesAck(motomed_values, DecodeActualValues(Head(framed)))
  /\ av_calls' = av_calls + 1
  /\ framed' = Tail(framed)
  /\ UNCHANGED <<configVars, flagVars, listVars, slotVars, last_phase_result,
                 is_phase_result, eventVars, sendVars, thread_watchdog, timeVars,
                 threadVars, readerVars, deviceVars, delivered, in_waiting,
                 read_buf, getterVars>>

\* _thread_catch_ack, lines 225 and 235-236, for a packet of bytes returned by
\* _read_packet: the phase result is decoded and stored, the waiting callers
\* are signalled and the reader thread returns
DispatchPhaseResult ==
  /\ rpc = "dispatch"
  /\ framed # <<>>
  /\ Len(Head(framed)) > 7
  /\ At(Head(framed), 6) = Rehastim2Commands.PhaseResult
  /\ last_phase_result' = PhaseResultAck(last_phase_result, DecodePhaseResult(Head(framed)))
  /\ is_phase_result' = TRUE
  /\ notified' = EventSet(notified)
  /\ rpc' = "done"
  /\ framed' = Tail(framed)
  /\ UNCHANGED <<configVars, flagVars, listVars, slotVars, motomed_values, av_calls,
                 eventVars, sendVars, thread_watchdog, timeVars, threadVars,
                 packets, comparison_thread_started, deviceVars, delivered,
                 in_waiting, read_buf, got>>

\* ------------------------------------------------------------ specification
SendStep(t) == SendAcquire(t) \/ SendPiggy(t) \/ SendWrite(t) \/ SendPost(t)

WatchdogStep(w) == WatchdogCheck(w) \/ WatchdogWake(w)

DisconnectStep(t) == Disconnect(t) \/ DisconnectJoined(t) \/ DisconnectReaderJoined(t)

GetLastAckStep(t) ==
  \/ \E init \in BOOLEAN : GetLastAck(t, init)
  \/ GetLastAckRead(t)
  \/ GetLastAckTake(t)

\* Spec: the send path, the watchdog threads, the clock and disconnect, with a
\* device that stays silent.
Next ==
  \/ ActivateSession
  \/ \E cmd \in Commands : SendEnter(Sender, cmd)
  \/ \E t \in Threads : SendStep(t)
  \/ \E w \in Watchdogs : WatchdogStep(w)
  \/ DisconnectStep(Closer)
  \/ ReaderLoop
  \/ ReaderScan
  \/ Tick

Spec == Init /\ [][Next]_vars

\* SpecAck: commands, the device's replies, the reader thread and the
\* acknowledgement hand-off, before the InitAck that starts a watchdog.
NextAck ==
  \/ ActivateSession
  \/ \E cmd \in AckCommands : SendEnter(Sender, cmd)
  \/ SendStep(Sender)
  \/ GetLastAckStep(Sender)
  \/ ReaderStep
  \/ \E packet \in DevicePackets(nrx) : DeviceEmit(packet, MaxRx)

SpecAck == Init /\ [][NextAck]_vars


\* SpecClose: a session is opened with InitAck and torn down with disconnect(),
\* while the reader thread runs and the device sends what it likes, or nothing.
NextClose ==
  \/ ActivateSession
  \/ SendEnter(Sender, "InitAck")
  \/ \E t \in Threads : SendStep(t)
  \/ \E w \in Watchdogs : WatchdogStep(w)
  \/ DisconnectStep(Closer)
  \/ ReaderStep
  \/ \E packet \in ReportPackets(nrx) : DeviceEmit(packet, MaxRxClose)
  \/ Tick

SpecClose == Init /\ [][NextClose]_vars

\* SpecClose with the scheduling of the threads; the device is free to stay
\* silent and the callers are free not to call.
FairClose ==
  /\ SpecClose
  /\ \A t \in Threads : WF_vars(SendStep(t))
  /\ \A w \in Watchdogs : WF_vars(WatchdogStep(w))
  /\ WF_vars(DisconnectJoined(Closer) \/ DisconnectReaderJoined(Closer))
  /\ WF_vars(ReaderStep)
  /\ WF_vars(Tick)

\* SpecScan: the correlation scan of the reader thread applied to correlation
\* lists drawn from bounded sets; the session has no motomed, so the reader
\* thread only scans.
ScanCommands ==
  {Pkt(Rehastim2Commands[c], 0, 0) :
     c \in {"GetStimulationMode", "InitChannelListMode", "StartChannelListMode"}}

ScanAcks ==
  {Pkt(Rehastim2Commands[c], 0, 0) :
     c \in {"GetStimulationModeAck", "InitChannelListModeAck", "StartChannelListModeAck"}}
  \cup {Pkt(Rehastim2Commands.StimulationError, st, 0) : st \in {-1, -4}}

SeqsUpTo(S, n) == UNION {[1..k -> S] : k \in 0..n}

InitScan ==
  /\ show_log = TRUE
  /\ is_motomed_connected = FALSE
  /\ reha_connected = FALSE
  /\ stimulation_active = TRUE
  /\ error_occured = FALSE
  /\ command_send \in SeqsUpTo(ScanCommands, MaxListLen)
  /\ ack_received \in SeqsUpTo(ScanAcks, MaxListLen)
  /\ last_ack = NoPacket
  /\ last_init_ack = NoPacket
  /\ motomed_values = <<>>
  /\ last_phase_result = <<>>
  /\ is_phase_result = FALSE
  /\ motomed_done = FALSE
  /\ event_ack = FALSE
  /\ packet_count = 0
  /\ packet_send_history = NoPacket
  /\ lock = NoThread
  /\ thread_watchdog = NoThread
  /\ comparison_thread_started = TRUE
  /\ elapsed = 0
  /\ sleepLeft = [w \in Watchdogs |-> 0]
  /\ pc = [t \in Threads |-> IF t \in Callers THEN "idle" ELSE "off"]
  /\ call = [t \in Threads |-> NoCall]
  /\ ret = [t \in Callers |-> "none"]
  /\ rpc = "scan"
  /\ packets = <<>>
  /\ rx = <<>>
  /\ wire = <<>>
  /\ nsends = 0
  /\ nrx = 0
  /\ av_calls = 0
  /\ FrameInit
  /\ GetterInit

NextScan == ReaderScan \/ ReaderLoop

SpecScan == InitScan /\ [][NextScan]_vars

\* SpecRing: a session with the motomed whose device sends actual-values
\* reports, numbered in the order they are sent.
NextRing ==
  \/ ActivateSession
  \/ DeviceEmit(Pkt(Rehastim2Commands.ActualValues, 0, nrx), RingCalls)
  \/ ReaderStep

SpecRing == InitWith(FALSE, TRUE) /\ [][NextRing]_vars

\* SpecFrame: the reader thread of a session with the motomed is in
\* _read_packet while the device sends a stream of bytes, in pieces of any
\* length.  The stream is any sequence of start bytes, stop bytes and data
\* bytes; the reader has read part of it when the next byte arrives.
FrameBytes == {START_BYTE, STOP_BYTE, 1}

InitFrame ==
  /\ show_log = TRUE
  /\ is_motomed_connected = TRUE
  /\ reha_connected = FALSE
  /\ stimulation_active = TRUE
  /\ error_occured = FALSE
  /\ command_send = <<>>
  /\ ack_received = <<>>
  /\ last_ack = NoPacket
  /\ last_init_ack = NoPacket
  /\ motomed_values = <<>>
  /\ last_phase_result = <<>>
  /\ is_phase_result = FALSE
  /\ motomed_done = FALSE
  /\ event_ack = FALSE
  /\ packet_count = 0
  /\ packet_send_history = NoPacket
  /\ lock = NoThread
  /\ thread_watchdog = NoThread
  /\ comparison_thread_started = TRUE
  /\ elapsed = 0
  /\ sleepLeft = [w \in Watchdogs |-> 0]
  /\ pc = [t \in Threads |-> IF t \in Callers THEN "idle" ELSE "off"]
  /\ call = [t \in Threads |-> NoCall]
  /\ ret = [t \in Callers |-> "none"]
  /\ rpc = "read"
  /\ packets = <<>>
  /\ rx = <<>>
  /\ wire = <<>>
  /\ nsends = 0
  /\ nrx = 0
  /\ av_calls = 0
  /\ FrameInit
  /\ GetterInit

NextFrame ==
  \/ \E b \in FrameBytes : DeviceDeliver(b)
  \/ ReadPacketRead
  \/ ReadPacketReturn

SpecFrame == InitFrame /\ [][NextFrame]_vars

\* SpecTelemetry: a session whose device sends the periodic reports of the
\* motomed, numbered in the order they are sent, while two callers use the
\* getters.
NextTelemetry ==
  \/ ActivateSession
  \/ DeviceEmit(Pkt(Rehastim2Commands.ActualValues, 0, nrx), MaxRx)
  \/ DeviceEmit(Pkt(Rehastim2Commands.PhaseResult, 0, nrx), MaxRx)
  \/ ReaderStep
  \/ \E t \in Callers, getter \in SampleGetters : GetSample(t, getter)
  \/ \E t \in Callers : GetPhaseResultStep(t)

SpecTelemetry == Init /\ [][NextTelemetry]_vars

\* SpecPhase: SpecTelemetry where a reader thread may be started again after
\* the previous one returned.
NextPhase == NextTelemetry \/ StartThreadCatchAck

SpecPhase == Init /\ [][NextPhase]_vars

\* SpecLatch: a session is opened with InitAck, the device reports a fatal
\* stimulation error, the caller takes the acknowledgement and the session is
\* torn down with disconnect().
NextLatch ==
  \/ ActivateSession
  \/ SendEnter(Sender, "InitAck")
  \/ \E t \in Threads : SendStep(t)
  \/ \E w \in Watchdogs : WatchdogStep(w)
  \/ GetLastAckStep(Sender)
  \/ DisconnectStep(Closer)
  \/ ReaderStep
  \/ DeviceEmit(Pkt(Rehastim2Commands.StimulationError, -1, 0), MaxRxClose)
  \/ Tick

SpecLatch == Init /\ [][NextLatch]_vars

\* SpecDecode: the reader thread of a session with the motomed dispatches one
\* report returned by _read_packet.  The report is an actual-values packet or
\* a phase-result packet whose bytes from offset 7 on are one data byte
\* repeated, with the stuffing marker at up to two offsets.
DataBytes == {1, 212}
ActualValuesLen == 17
PhaseResultLen == 36

ReportBytes(id, len) ==
  {[k \in 1..len |->
      IF k - 1 = 6 THEN id
      ELSE IF k - 1 \in {a, b} THEN STUFFING_BYTE
      ELSE IF k - 1 < 6 THEN 0 ELSE d] :
     a \in 6..(len - 1), b \in 6..(len - 1), d \in DataBytes}

Reports ==
  ReportBytes(Rehastim2Commands.ActualValues, ActualValuesLen)
    \cup ReportBytes(Rehastim2Commands.PhaseResult, PhaseResultLen)

InitDecode ==
  /\ show_log = FALSE
  /\ is_motomed_connected = TRUE
  /\ reha_connected = FALSE
  /\ stimulation_active = TRUE
  /\ error_occured = FALSE
  /\ command_send = <<>>
  /\ ack_received = <<>>
  /\ last_ack = NoPacket
  /\ last_init_ack = NoPacket
  /\ motomed_values = <<>>
  /\ last_phase_result = <<>>
  /\ is_phase_result = FALSE
  /\ motomed_done = FALSE
  /\ event_ack = FALSE
  /\ packet_count = 0
  /\ packet_send_history = NoPacket
  /\ lock = NoThread
  /\ thread_watchdog = NoThread
  /\ comparison_thread_started = TRUE
  /\ elapsed = 0
  /\ sleepLeft = [w \in Watchdogs |-> 0]
  /\ pc = [t \in Threads |-> IF t \in Callers THEN "idle" ELSE "off"]
  /\ call = [t \in Threads |-> NoCall]
  /\ ret = [t \in Callers |-> "none"]
  /\ rpc = "dispatch"
  /\ packets = <<>>
  /\ rx = <<>>
  /\ wire = <<>>
  /\ nsends = 0
  /\ nrx = 0
  /\ av_calls = 0
  /\ \E report \in Reports : delivered = report /\ framed = <<report>>
  /\ in_waiting = <<>>
  /\ read_buf = <<>>
  /\ GetterInit

NextDecode == DispatchActualValues \/ DispatchPhaseResult

SpecDecode == InitDecode /\ [][NextDecode]_vars

\* SpecAck with the scheduling of the threads: a thread that can take a step
\* is not held back forever.  The device is free to stay silent.
FairAck ==
  /\ SpecAck
  /\ WF_vars(SendStep(Sender))
  /\ WF_vars(GetLastAckRead(Sender) \/ GetLastAckTake(Sender))
  /\ WF_vars(ReaderStep)

\* ------------------------------------------------------------------ properties

\* C1: once error_occured is set, every later send_generic_packet call fails
\* at once and writes nothing to the port: no write on the transport belongs
\* to a call that was entered with the latch set.
C1_NoWriteAfterLatch == \A k \in DOMAIN wire : ~wire[k].latched

\* C2: when ack_received holds exactly the acknowledgements of the commands in
\* command_send (identifier + 1), in any order, the scan pairs every command
\* with its acknowledgement and both lists end empty.
IsAckOf(a, c) == a.id = c.id + 1

AcksOfCommands(cs, ar) ==
  /\ Len(cs) = Len(ar)
  /\ \E f \in [DOMAIN cs -> DOMAIN ar] :
       /\ \A i, j \in DOMAIN cs : f[i] = f[j] => i = j
       /\ \A i \in DOMAIN cs : IsAckOf(ar[f[i]], cs[i])

C2_OutOfOrderCorrelation ==
  [][(rpc = "scan" /\ command_send # <<>> /\ AcksOfCommands(command_send, ack_received))
       => (command_send' = <<>> /\ ack_received' = <<>>)]_vars

\* C3: a caller blocked in _get_last_ack leaves the wait once the reader has
\* set error_occured: it does not wait forever after the fatal latch.
C3_WaiterLeaves ==
  (pc[Sender] = "g_wait" /\ error_occured) ~> (pc[Sender] # "g_wait")

\* C4: when disconnect() returns, the watchdog thread it stopped is finished
\* and joined, reha_connected and stimulation_active are false, and
\* is_motomed_connected is false.
DisconnectReturns(t) ==
  /\ pc[t] \in {"d_join", "d_joinr"} /\ pc'[t] = "idle" /\ ret'[t] = "ok"
  /\ wire # <<>>
  /\ \A u \in Callers \ {t} : pc[u] = "idle"

C4_DisconnectPostcondition ==
  [][\A t \in Callers :
       DisconnectReturns(t) =>
         /\ pc'[call[t].w] = "done"
         /\ ~reha_connected'
         /\ ~stimulation_active'
         /\ ~is_motomed_connected']_vars

\* C5: once disconnect() has set stimulation_active to false, the reader thread
\* eventually leaves its loop, whatever the device does, a silent device included.
C5_ReaderTerminates ==
  (comparison_thread_started /\ ~stimulation_active) ~> ReaderFinished

\* C6: every port.write is made by the thread that holds self.lock, and two
\* threads are never inside the write section together.
C6_WriteSerialization ==
  \A t \in Threads :
    InWriteSection(t) =>
      /\ lock = t
      /\ \A u \in Threads : InWriteSection(u) => u = t

C6_Witness ==
  \E t \in Callers, w \in Watchdogs : InWriteSection(t) /\ pc[w] = "s_lock"

\* C7: a command written more than 1 s after the last command send is
\* preceded on the transport by a Watchdog packet written by the same thread
\* in the same lock acquisition, nothing in between; a command written at
\* most 1 s after the last command send is not.
C7_PiggyBackedHeartbeat ==
  \A k \in DOMAIN wire :
    /\ wire[k].piggy =>
         /\ wire[k].id = Rehastim2Commands.Watchdog
         /\ IF k < Len(wire)
              THEN ~wire[k + 1].piggy /\ wire[k + 1].t = wire[k].t
              ELSE lock = wire[k].t /\ pc[wire[k].t] = "s_write"
    /\ (~wire[k].piggy /\ k > 1) =>
         (wire[k].late <=> (wire[k - 1].piggy /\ wire[k - 1].t = wire[k].t))
    /\ (~wire[k].piggy /\ k = 1 /\ Len(wire) = 1) => ~wire[k].late

C7_Witness ==
  /\ Len(wire) = 2
  /\ packet_count > 0
  /\ wire[1].piggy /\ wire[1].t = Sender
  /\ ~wire[2].piggy /\ wire[2].t = Sender /\ wire[2].late

\* C8: while the session is connected and no command is being sent, the time
\* since the last write of a command or heartbeat never exceeds 0.8 s: a
\* Watchdog packet is written within 0.8 s of the last command.
C8_HeartbeatDeadline ==
  (reha_connected /\ wire # <<>> /\ \A t \in Threads : ~InSend(t))
    => elapsed <= WatchdogThreshold

\* C9: command_send never holds a packet whose command identifier is Watchdog.
C9_NoHeartbeatCorrelated ==
  \A k \in DOMAIN command_send : command_send[k].id # Rehastim2Commands.Watchdog

C9_Witness ==
  /\ show_log
  /\ command_send # <<>>
  /\ Len(wire) = 2
  /\ wire[1].piggy
  /\ wire[2].t \in Watchdogs /\ wire[2].id = Rehastim2Commands.Watchdog


\* C10: after k calls of _actual_values_ack, motomed_values holds the
\* min(k, max_motomed_values) most recently inserted samples in insertion
\* order; past the maximum, the oldest one kept is sample k - max_motomed_values.
C10_RingBuffer ==
  /\ Len(motomed_values) = Min(av_calls, max_motomed_values)
  /\ \A j \in DOMAIN motomed_values :
       motomed_values[j] = av_calls - Len(motomed_values) + j - 1

C10_Witness ==
  /\ av_calls > max_motomed_values
  /\ Len(motomed_values) = max_motomed_values
  /\ motomed_values[1] = av_calls - max_motomed_values

\* C11: no packet returned by _read_packet ends at a stop byte that lies at an
\* offset less than 8 from the packet's start.
C11_FramingRobustness ==
  \A k \in DOMAIN framed :
    ~(framed[k][Len(framed[k])] = STOP_BYTE /\ Len(framed[k]) - 1 < MinStopOffset)

\* A well-formed packet: it begins with the start byte and its only stop byte
\* at an offset of 8 or more is its last byte.
ValidPacket(p) ==
  /\ Len(p) > MinStopOffset
  /\ p[1] = START_BYTE
  /\ \A k \in 2..Len(p) : p[k] # START_BYTE
  /\ \A k \in (MinStopOffset + 1)..Len(p) : p[k] = STOP_BYTE <=> k = Len(p)

\* C12: bytes that do not yet form a complete packet are kept for a later
\* read: when the device has sent a well-formed packet, in any number of
\* pieces, and the reader has read all of it, the packet was returned once.
C12_FragmentRetention ==
  (in_waiting = <<>> /\ read_buf = <<>> /\ ValidPacket(delivered))
    => framed = <<delivered>>

IsFatalEntry(a) == a.id = Rehastim2Commands.StimulationError /\ a.st \in FatalCodes

\* C13: a scan of the reader thread that finds in ack_received a
\* StimulationError entry with a status code in {-1,-2,-3}, whatever
\* command_send holds and wherever the entry is, sets error_occured; a scan of
\* a list that holds StimulationError entries with other codes only leaves it.
C13_FatalClassification ==
  [][rpc = "scan" =>
       /\ (\E k \in DOMAIN ack_received : IsFatalEntry(ack_received[k]))
            => error_occured'
       /\ (\A k \in DOMAIN ack_received :
             ack_received[k].id = Rehastim2Commands.StimulationError
             /\ ~IsFatalEntry(ack_received[k]))
            => error_occured' = error_occured]_vars

\* C14: the packets written to the port carry, in write order, packet numbers
\* that grow by one modulo 256 from each packet to the next, piggy-backed
\* heartbeats included; packet_count stays in 0..255.
C14_PacketNumbers ==
  /\ packet_count \in 0..255
  /\ Len(wire) = 2 => wire[2].n = (wire[1].n + 1) % 256

\* C15: get_angle, get_speed and get_torque return the most recently decoded
\* sample, and with no sample decoded yet they do not fail: a getter returns
\* only when a sample exists, with that sample.
C15_LatestSample ==
  [][\A t \in Callers :
       (got'[t] # got[t] /\ got'[t].call \in SampleGetters)
         => /\ motomed_values # <<>>
            /\ got'[t].status = "ok"
            /\ got'[t].val = <<motomed_values[Len(motomed_values)]>>]_vars

\* A decoded phase result that no getter has read or returned, while the event
\* that announces it is clear and no caller is on its way to read it.
LostPhaseResult ==
  /\ last_phase_result # <<>>
  /\ ~is_phase_result
  /\ \A t \in Callers :
       /\ pc[t] # "p_read"
       /\ ~(pc[t] = "p_wait" /\ t \in notified)
       /\ got[t].phase # last_phase_result

\* C16: last_phase_result holds at most max_phase_result results, and a result
\* decoded by the reader is handed to a getter: it is not lost, also when it
\* is decoded while a getter is between reading and clearing the event.
C16_PhaseResultHandOff ==
  /\ Len(last_phase_result) <= max_phase_result
  /\ ~LostPhaseResult

\* C17: error_occured is a one-way latch: no step sets it back to false, and
\* a _get_last_ack call entered with the latch set raises at once, without
\* consuming last_ack or last_init_ack and without changing ack_received.
C17_OneWayLatch ==
  [][/\ error_occured => error_occured'
     /\ \A t \in Callers :
          (error_occured /\ \E init \in BOOLEAN : GetLastAck(t, init))
            => /\ ret'[t] = "raise"
               /\ pc'[t] = "idle"
               /\ UNCHANGED <<last_ack, last_init_ack, ack_received>>]_vars

C17_Witness ==
  /\ error_occured
  /\ ret[Sender] = "raise"
  /\ ret[Closer] = "ok"
  /\ ~stimulation_active

\* C18: while the session is active and no fatal error has occurred, the
\* reader thread that was started does not terminate, also after it has
\* handled a PhaseResult packet.
C18_ReaderContinuous ==
  (comparison_thread_started /\ stimulation_active /\ ~error_occured)
    => ~ReaderFinished

\* C19: every packet other than a heartbeat that is passed to
\* send_generic_packet is appended to command_send, whatever show_log is.
C19_EverySendRecorded ==
  [][\A t \in Callers :
       (pc[t] = "idle" /\ pc'[t] = "s_lock")
         => command_send' = Append(command_send, call'[t].pkt)]_vars

\* C20: every change of command_send or ack_received is made by a thread that
\* holds the lock.
C20_ListsUnderLock ==
  [][(command_send' # command_send \/ ack_received' # ack_received)
       => lock # NoThread]_vars

\* The value of a stuffed field as the rule reads: the byte after the marker
\* XOR the key stands for the field's own byte.
ClaimedStuffedValue(form, p, o) ==
  CASE form = "byte" -> Xor(At(p, o + 1), STUFFING_KEY)
    [] form = "word" ->
         HighByteWeight * At(p, o - 1) + Xor(At(p, o + 1), STUFFING_KEY)
    [] form = "sword" ->
         HighByteWeight * SignedInt(At(p, o - 1)) + Xor(At(p, o + 1), STUFFING_KEY)
    [] form = "sbyte" -> SignedInt(Xor(At(p, o + 1), STUFFING_KEY))
    [] form = "symmetry" -> SignedInt(Xor(At(p, o + 1), STUFFING_KEY))

RECURSIVE ClaimedFrom(_, _, _, _)
ClaimedFrom(p, fields, i, count) ==
  IF i > Len(fields) THEN <<>>
  ELSE LET o == fields[i].off + count
       IN IF At(p, o) = STUFFING_BYTE
            THEN <<ClaimedStuffedValue(fields[i].form, p, o)>>
                   \o ClaimedFrom(p, fields, i + 1, count + 1)
            ELSE <<RawValue(fields[i].form, p, o)>>
                   \o ClaimedFrom(p, fields, i + 1, count)

\* C21: in both decoders a field whose offset holds the stuffing marker 0x81
\* takes the following byte XOR 0x55 as its byte (a two-byte field is
\* 255 * high + that byte, symmetry its signed value) and moves the later
\* offsets by one; another byte is used as it is.
C21_Unstuffing ==
  (framed = <<>> /\ delivered # <<>>) =>
    /\ At(delivered, 6) = Rehastim2Commands.ActualValues =>
         motomed_values = <<ClaimedFrom(delivered, ActualValuesFields, 1, 0)>>
    /\ At(delivered, 6) = Rehastim2Commands.PhaseResult =>
         last_phase_result = <<ClaimedFrom(delivered, PhaseResultFields, 1, 0)>>

\* C22: an actual-values report that the device sends while
\* is_motomed_connected is false makes the running reader thread set
\* error_occured.
C22_MismatchFatal ==
  (/\ ~is_motomed_connected
   /\ comparison_thread_started
   /\ \E k \in DOMAIN rx : rx[k].id = Rehastim2Commands.ActualValues)
    ~> error_occured

AliveWatchdogs == {w \in Watchdogs : pc[w] \notin {"off", "done"}}

\* C23: at most one watchdog thread is alive at any time: an InitAck sent
\* while a watchdog thread runs does not start a second one.
C23_SingleWatchdog == Cardinality(AliveWatchdogs) <= 1

\* A deposited acknowledgement leaves its slot only when the caller that read
\* this very acknowledgement resets the slot.
SlotKept(before, after, init) ==
  (before # NoPacket /\ after # before)
    => /\ after = NoPacket
       /\ \E t \in Callers :
            pc[t] = "g_take" /\ call[t].init = init /\ call[t].pkt = before

\* C24: no acknowledgement is lost in the hand-off: a packet deposited in
\* last_ack or last_init_ack is not overwritten by a later deposit before it
\* is consumed, and is not erased by a caller that read an older one.
C24_NoAckLost ==
  [][/\ SlotKept(last_ack, last_ack', FALSE)
     /\ SlotKept(last_init_ack, last_init_ack', TRUE)]_vars

\* C25: a complete packet contained in the bytes of one _read_packet call is in
\* the returned list, whatever bytes follow it: when the bytes read by the
\* call begin with a well-formed packet, that packet is the first one the call
\* returns.
C25_CompletePacketsKept ==
  [][(rpc = "read" /\ read_buf # <<>> /\ read_buf' = <<>>)
       => \A n \in 1..Len(read_buf) :
            ValidPacket(SubSeq(read_buf, 1, n))
              => /\ Len(framed') > Len(framed)
                 /\ framed'[Len(framed) + 1] = SubSeq(read_buf, 1, n)]_vars

====
